---- MODULE Spec2Model ----
(***************************************************************************)
(* Model of doapetry.py: the loader doapetry() with its README workaround, *)
(* the graph builder pyproject_doap() and the cli() wrapper.               *)
(*                                                                         *)
(* Optional Python values are modelled as sequences of length at most one: *)
(* None is <<>> and a present value v is <<v>>.  RDF terms are pairs       *)
(* <<kind, text>> with kind "uri" or "lit"; a graph is a set of triples.   *)
(***************************************************************************)
EXTENDS Integers, Sequences, FiniteSets, TLC

VARIABLES
    pc,          \* position of the run inside cli()/doapetry()
    sameDir,     \* TRUE iff project_path resolves to the working directory
    otherMissing,\* TRUE iff the table refers to the file OtherFile, which does not exist
    otherFirst,  \* TRUE iff the parser reports that other file before the README
    toml,        \* the [project] table of pyproject.toml
    base_url,    \* cli option base_url
    fs,          \* filesystem: <<dir, file name>> -> optional content
    fs0,         \* the filesystem at the start of the run
    project,     \* local variable project of doapetry()
    attempt,     \* loop variable of the for loop
    efilename,   \* e.filename of the last FileNotFoundError
    g,           \* local variable g of doapetry()
    exc,         \* the exception that left doapetry(), if any
    output,      \* what cli() printed
    trace        \* executed steps, in order

vars == <<pc, sameDir, otherMissing, otherFirst, toml, base_url, fs, fs0,
          project, attempt, efilename, g, exc, output, trace>>

-----------------------------------------------------------------------------
(* Optional values *)

None == <<>>

Some(v) == <<v>>

\* Python truthiness of an optional string: None and "" are falsy
Truthy(opt) == opt # None /\ opt[1] # ""

-----------------------------------------------------------------------------
(* Bounds of the model *)

MaxAuthors == 2

MaxMaintainers == 1

-----------------------------------------------------------------------------
(* Program constants *)

README_TMP_CONTENT == "__tmp__"

\* a loop with one more attempt
attempts_3 == 2 + 1

attempts == 2

LICENSE_NAMESPACE == "https://spdx.org/licenses/"

SIODC == "https://siodc.example.org/#"

DOAP == "http://usefulinc.com/ns/doap#"

FOAF == "http://xmlns.com/foaf/0.1/"

RDF == "http://www.w3.org/1999/02/22-rdf-syntax-ns#"

RDFS == "http://www.w3.org/2000/01/rdf-schema#"

-----------------------------------------------------------------------------
(* RDF terms and graphs *)

URIRef(s) == <<"uri", s>>

Literal(s) == <<"lit", s>>

RDF_type == URIRef(RDF \o "type")

\* Resource.add(p, o) on the resource s of graph gr: a graph is a set
ResourceAdd(gr, s, p, o) == gr \cup {<<s, p, o>>}

-----------------------------------------------------------------------------
(* pyproject_doap *)

project_resource_of(project_dict, base) == URIRef(base \o project_dict.name)

\* line 84 without line 85
NameStatements_noname(gr, pr, project_dict) ==
    ResourceAdd(gr, pr, RDF_type, URIRef(DOAP \o "Project"))

\* lines 84-85
NameStatements(gr, pr, project_dict) ==
    ResourceAdd(ResourceAdd(gr, pr, RDF_type, URIRef(DOAP \o "Project")),
                pr, URIRef(DOAP \o "name"), Literal(project_dict.name))

\* lines 87-88 without the condition of line 86
DescriptionStatements_always(gr, pr, project_dict) ==
    LET description == IF project_dict.description = None THEN ""
                       ELSE project_dict.description[1]
    IN  ResourceAdd(ResourceAdd(gr, pr, URIRef(DOAP \o "shortdesc"), Literal(description)),
                    pr, URIRef(DOAP \o "description"), Literal(description))

\* lines 86-88
DescriptionStatements(gr, pr, project_dict) ==
    IF Truthy(project_dict.description)
    THEN LET description == project_dict.description[1]
         IN  ResourceAdd(ResourceAdd(gr, pr, URIRef(DOAP \o "shortdesc"), Literal(description)),
                         pr, URIRef(DOAP \o "description"), Literal(description))
    ELSE gr

\* a person IRI minted from the name instead of the email
email_iri_byname(person) == URIRef("mailto:" \o person.name)

\* lines 90 and 98: URIRef("mailto:" + person.get("email")), email present
email_iri(person) == URIRef("mailto:" \o person.email[1])

\* lines 91-96 and 99-104: the body of one loop iteration
PersonStatements(gr, pr, person, predicate) ==
    LET iri == email_iri(person)
        g1 == ResourceAdd(gr, iri, RDF_type, URIRef(FOAF \o "Agent"))
        g2 == ResourceAdd(g1, iri, URIRef(FOAF \o "name"), Literal(person.name))
        g3 == ResourceAdd(g2, iri, URIRef(FOAF \o "mbox"), iri)
    IN  ResourceAdd(g3, pr, predicate, iri)

\* project_dict.get(key) or []
OrEmpty(optlist) == IF optlist = None THEN <<>> ELSE optlist[1]

\* "mailto:" + None raises TypeError
RaisesTypeError(people) == \E i \in 1..Len(people) : people[i].email = None

RECURSIVE PeopleStatements(_, _, _, _)
\* the for loops of lines 89 and 97
PeopleStatements(gr, pr, people, predicate) ==
    IF people = <<>> THEN gr
    ELSE PeopleStatements(PersonStatements(gr, pr, Head(people), predicate),
                          pr, Tail(people), predicate)

\* lines 108-112
RepositoryStatements(gr, pr, urls) ==
    IF Truthy(urls.repository)
    THEN LET repository_resource == URIRef(urls.repository[1])
             g1 == ResourceAdd(gr, pr, URIRef(DOAP \o "repository"), repository_resource)
             g2 == ResourceAdd(g1, repository_resource, RDF_type, URIRef(DOAP \o "Repository"))
         IN  ResourceAdd(g2, repository_resource, URIRef(DOAP \o "location"), pr)
    ELSE gr

\* a non-empty dict is truthy
UrlsTruthy(opturls) ==
    /\ opturls # None
    /\ \/ opturls[1].homepage # None
       \/ opturls[1].repository # None
       \/ opturls[1].documentation # None
       \/ opturls[1].bugtracker # None

\* lines 105-116
UrlStatements(gr, pr, project_dict) ==
    IF UrlsTruthy(project_dict.urls)
    THEN LET urls == project_dict.urls[1]
             g1 == IF Truthy(urls.homepage)
                   THEN ResourceAdd(gr, pr, URIRef(DOAP \o "homepage"), URIRef(urls.homepage[1]))
                   ELSE gr
             g2 == RepositoryStatements(g1, pr, urls)
             g3 == IF Truthy(urls.documentation)
                   THEN ResourceAdd(g2, pr, URIRef(DOAP \o "documentation"),
                                    URIRef(urls.documentation[1]))
                   ELSE g2
         IN  IF Truthy(urls.bugtracker)
             THEN ResourceAdd(g3, pr, URIRef(SIODC \o "issue_tracker"), URIRef(urls.bugtracker[1]))
             ELSE g3
    ELSE gr

\* lines 120-122 without the condition of line 119
LicenseStatements_anytext(gr, pr, project_dict) ==
    IF project_dict.license # None
    THEN LET license_text == project_dict.license[1].text
             license_resource == URIRef(LICENSE_NAMESPACE \o license_text)
         IN  ResourceAdd(ResourceAdd(gr, pr, URIRef(DOAP \o "license"), license_resource),
                         license_resource, URIRef(RDFS \o "label"), Literal(license_text))
    ELSE gr

\* lines 118-122
LicenseStatements(gr, pr, project_dict) ==
    IF project_dict.license # None /\ project_dict.license[1].text # ""
    THEN LET license_text == project_dict.license[1].text
             license_resource == URIRef(LICENSE_NAMESPACE \o license_text)
         IN  ResourceAdd(ResourceAdd(gr, pr, URIRef(DOAP \o "license"), license_resource),
                         license_resource, URIRef(RDFS \o "label"), Literal(license_text))
    ELSE gr

\* The outcome of pyproject_doap(project, base_url): the graph, or the
\* exception that leaves the function.
pyproject_doap(proj, base) ==
    IF proj = None
    THEN [kind |-> "AttributeError", graph |-> {}]        \* None.project, line 80
    ELSE LET project_dict == proj[1]
             pr == project_resource_of(project_dict, base)
             authors == OrEmpty(project_dict.authors)
             maintainers == OrEmpty(project_dict.maintainers)
         IN  IF RaisesTypeError(authors) \/ RaisesTypeError(maintainers)
             THEN [kind |-> "TypeError", graph |-> {}]
             ELSE LET g1 == NameStatements({}, pr, project_dict)
                      g2 == DescriptionStatements(g1, pr, project_dict)
                      g3 == PeopleStatements(g2, pr, authors, URIRef(DOAP \o "developer"))
                      g4 == PeopleStatements(g3, pr, maintainers, URIRef(DOAP \o "maintainer"))
                      g5 == UrlStatements(g4, pr, project_dict)
                  IN  [kind |-> "ok", graph |-> LicenseStatements(g5, pr, project_dict)]
-----------------------------------------------------------------------------
(* The inputs of a run *)

BaseUrls == {"https://example.org/"}

ProjectNames == {"foo", "repo"}

Descriptions == {None, Some(""), Some("bar")}

\* author and maintainer entries: two that share an email, one with an empty
\* email and one without email
PersonEntries ==
    { [name |-> "Ann", email |-> Some("a@x.org")],
      [name |-> "Bob", email |-> Some("a@x.org")],
      [name |-> "Cy",  email |-> Some("")],
      [name |-> "Dee", email |-> None] }

SeqsUpTo(S, n) == UNION { [1..k -> S] : k \in 0..n }

OptionalList(S, n) == {None} \cup { Some(l) : l \in SeqsUpTo(S, n) }

UrlTables ==
    {None} \cup
    { Some(u) : u \in [ homepage      : {None, Some("https://example.org/home")},
                        repository    : {None, Some(""), Some("https://example.org/repo")},
                        documentation : {None, Some("https://example.org/docs")},
                        bugtracker    : {None, Some("https://example.org/issues")} ] }

Licenses == {None, Some([text |-> ""]), Some([text |-> "MIT"])}

ReadmeNames == {"README.md", "README.rst"}

\* the records the graph builder is run on
BuildRecords ==
    [ name        : ProjectNames,
      description : Descriptions,
      authors     : OptionalList(PersonEntries, MaxAuthors),
      maintainers : OptionalList(PersonEntries, MaxMaintainers),
      urls        : UrlTables,
      license     : Licenses,
      readme      : {Some("README.md")} ]

\* the records the loader is run on
LoaderRecords ==
    [ name        : {"foo"},
      description : {None},
      authors     : {None, Some(<<[name |-> "Ann", email |-> Some("a@x.org")]>>),
                     Some(<<[name |-> "Cy", email |-> None]>>)},
      maintainers : {None},
      urls        : {None},
      license     : {None},
      readme      : {None} \cup { Some(n) : n \in ReadmeNames } ]

Contents == {None, Some(README_TMP_CONTENT), Some("hello")}

Dirs == {"cwd", "proj"}

OtherFile == "LICENSE.txt"

Paths == Dirs \X (ReadmeNames \cup {OtherFile})

-----------------------------------------------------------------------------
(* doapetry and cli *)

\* project_path as a directory of the model
project_path == IF sameDir THEN "cwd" ELSE "proj"

\* line 69: project_path / project.project.get("readme").file
ReadmePath(table) == <<project_path, table.readme[1]>>

\* PyProject.load(pyproject_toml), lines 52-57: the parser loads the table only
\* when the files it needs exist; the README is looked up in the project directory
PyProjectLoad ==
    LET readmeMissing == toml.readme # None /\ fs[ReadmePath(toml)] = None
        otherAbsent == otherMissing /\ fs[<<project_path, OtherFile>>] = None
        other == [kind |-> "FileNotFoundError", filename |-> OtherFile]
        readme == [kind |-> "FileNotFoundError", filename |-> toml.readme[1]]
    IN  IF otherAbsent /\ (otherFirst \/ ~readmeMissing) THEN other
        ELSE IF readmeMissing THEN readme
        ELSE [kind |-> "ok", filename |-> ""]

\* line 59 accepting every file name
IsReadmeMd_any(filename) == filename = filename

\* line 59
IsReadmeMd(filename) == filename = "README.md"

\* lines 61-62: open(e.filename, "w") resolves against the working directory
WriteTmpReadme(files, filename) ==
    [files EXCEPT ![<<"cwd", filename>>] = Some(README_TMP_CONTENT)]

\* lines 51-56: an attempt whose parse succeeds leaves the loop
LoadOk ==
    /\ pc = "load"
    /\ attempt < attempts
    /\ PyProjectLoad.kind = "ok"
    /\ project' = Some(toml)
    /\ pc' = "build"
    /\ trace' = Append(trace, "load")
    /\ UNCHANGED <<sameDir, otherMissing, otherFirst, toml, base_url, fs, fs0,
                   attempt, efilename, g, exc, output>>

\* lines 51-62: an attempt whose parse raises FileNotFoundError, with its handler
LoadFileNotFound ==
    /\ pc = "load"
    /\ attempt < attempts
    /\ PyProjectLoad.kind = "FileNotFoundError"
    /\ efilename' = PyProjectLoad.filename
    /\ IF IsReadmeMd(PyProjectLoad.filename)
       THEN /\ fs' = WriteTmpReadme(fs, PyProjectLoad.filename)
            /\ trace' = trace \o <<"load", "notfound", "write">>
       ELSE /\ fs' = fs
            /\ trace' = trace \o <<"load", "notfound">>
    /\ attempt' = attempt + 1
    /\ pc' = IF attempt + 1 < attempts THEN "load" ELSE "else"
    /\ UNCHANGED <<sameDir, otherMissing, otherFirst, toml, base_url, fs0,
                   project, g, exc, output>>

\* lines 63-64: the else branch of the for loop
LoopElse ==
    /\ pc = "else"
    /\ trace' = Append(trace, "error")
    /\ pc' = "build"
    /\ UNCHANGED <<sameDir, otherMissing, otherFirst, toml, base_url, fs, fs0,
                   project, attempt, efilename, g, exc, output>>

\* line 66
Build ==
    /\ pc = "build"
    /\ LET r == pyproject_doap(project, base_url)
       IN  IF r.kind = "ok"
           THEN /\ g' = Some(r.graph)
                /\ pc' = "cleanup"
                /\ exc' = exc
           ELSE /\ g' = g
                /\ pc' = "raised"
                /\ exc' = r.kind
    /\ trace' = Append(trace, "build")
    /\ UNCHANGED <<sameDir, otherMissing, otherFirst, toml, base_url, fs, fs0,
                   project, attempt, efilename, output>>

\* The outcome of lines 69-73.  readme is a Path, and a Path has no attribute
\* file: the f-string of line 72 raises before unlink() is reached.
CleanupOutcome ==
    IF project[1].readme = None THEN "AttributeError"            \* None.file, line 69
    ELSE IF fs[ReadmePath(project[1])] = None THEN "FileNotFoundError" \* line 70
    ELSE IF fs[ReadmePath(project[1])] = Some(README_TMP_CONTENT)
         THEN "AttributeError"                                   \* readme.file, line 72
    ELSE "ok"

\* lines 68-75
Cleanup ==
    /\ pc = "cleanup"
    /\ IF CleanupOutcome = "ok"
       THEN /\ pc' = "return"
            /\ exc' = exc
       ELSE /\ pc' = "raised"
            /\ exc' = CleanupOutcome
    /\ trace' = Append(trace, "cleanup")
    /\ UNCHANGED <<sameDir, otherMissing, otherFirst, toml, base_url, fs, fs0,
                   project, attempt, efilename, g, output>>

\* lines 34-40: doapetry returned a graph, cli prints it
CliPrint ==
    /\ pc = "return"
    /\ IF g[1] # {}
       THEN /\ output' = g
            /\ trace' = Append(trace, "print")
       ELSE /\ output' = output
            /\ trace' = trace
    /\ pc' = "done"
    /\ UNCHANGED <<sameDir, otherMissing, otherFirst, toml, base_url, fs, fs0,
                   project, attempt, efilename, g, exc>>

\* line 34: an exception of doapetry is not caught by cli
CliRaise ==
    /\ pc = "raised"
    /\ pc' = "crashed"
    /\ UNCHANGED <<sameDir, otherMissing, otherFirst, toml, base_url, fs, fs0,
                   project, attempt, efilename, g, exc, output, trace>>

Init ==
    /\ pc = "load"
    /\ sameDir \in BOOLEAN
    /\ otherMissing \in BOOLEAN
    /\ otherFirst \in BOOLEAN
    /\ otherMissing = FALSE => otherFirst = FALSE
    /\ toml \in LoaderRecords
    /\ base_url \in BaseUrls
    /\ fs \in [Paths -> Contents]
    /\ sameDir => \A n \in ReadmeNames : fs[<<"proj", n>>] = None
    /\ fs[<<"cwd", "README.rst">>] # None => sameDir
    /\ \A d \in Dirs : fs[<<d, OtherFile>>] = None
    /\ fs0 = fs
    /\ project = None
    /\ attempt = 0
    /\ efilename = ""
    /\ g = None
    /\ exc = ""
    /\ output = None
    /\ trace = <<>>

Next ==
    \/ LoadOk
    \/ LoadFileNotFound
    \/ LoopElse
    \/ Build
    \/ Cleanup
    \/ CliPrint
    \/ CliRaise

Spec == Init /\ [][Next]_vars

\* The graph builder on its own: doapetry after a successful first load
BuildInit ==
    /\ pc = "build"
    /\ sameDir = TRUE
    /\ otherMissing = FALSE
    /\ otherFirst = FALSE
    /\ toml \in BuildRecords
    /\ base_url \in BaseUrls
    /\ fs = [p \in Paths |-> IF p = <<"cwd", "README.md">> THEN Some("hello") ELSE None]
    /\ fs0 = fs
    /\ project = Some(toml)
    /\ attempt = 0
    /\ efilename = ""
    /\ g = None
    /\ exc = ""
    /\ output = None
    /\ trace = <<"load">>

BuildNext == Build

BuildSpec == BuildInit /\ [][BuildNext]_vars
-----------------------------------------------------------------------------
(* Properties *)

Terminal == pc \in {"done", "crashed"}

Has(e) == \E i \in 1..Len(trace) : trace[i] = e

Count(e) == Cardinality({ i \in 1..Len(trace) : trace[i] = e })

IsPrefix(s, t) == Len(s) <= Len(t) /\ SubSeq(t, 1, Len(s)) = s

\* the graph held by g, and the terms the properties speak about
G == g[1]

pr0 == project_resource_of(toml, base_url)

Statements(s, p) == { t \in G : t[1] = s /\ t[2] = p }

DOAP_Project == URIRef(DOAP \o "Project")

DOAP_Repository == URIRef(DOAP \o "Repository")

DOAP_name == URIRef(DOAP \o "name")

DOAP_developer == URIRef(DOAP \o "developer")

FOAF_Agent == URIRef(FOAF \o "Agent")

\* the builder has returned a graph for the record toml
Built == g # None

C1Case ==
    /\ sameDir
    /\ ~otherMissing
    /\ toml.readme = Some("README.md")
    /\ fs0[<<"cwd", "README.md">>] = None
    /\ pyproject_doap(Some(toml), base_url).kind = "ok"

\* C1. A run on a project whose README.md is absent creates the file with the
\* sentinel content, parses successfully at the second attempt, builds the
\* graph, removes the file again and returns the graph: at the end of the run no
\* file with the sentinel content is left and the graph has been returned.
C1_MissingReadmeCreatedAndRemoved ==
    (C1Case /\ Terminal) =>
        /\ IsPrefix(<<"load", "notfound", "write", "load", "build", "cleanup">>, trace)
        /\ fs[<<"cwd", "README.md">>] # Some(README_TMP_CONTENT)
        /\ pc = "done"
        /\ g # None
        /\ output = g

\* C2. When both parse attempts have failed the run stops after logging the
\* error: the graph builder and the cleanup are not run, there is no graph and
\* no output, and no exception leaves cli.
C2_FatalLoadStopsQuietly ==
    Has("error") =>
        /\ ~Has("build")
        /\ ~Has("cleanup")
        /\ g = None
        /\ output = None
        /\ pc \notin {"raised", "crashed"}

\* C3. At the end of a run a README that existed before the run with a content
\* other than the sentinel is still there with that content, and a README whose
\* content was the sentinel when the cleanup step ran has been deleted, whether
\* or not the run created it.
C3_CleanupDeletesExactlySentinel ==
    (Terminal /\ toml.readme # None) =>
        LET readme == ReadmePath(toml)
        IN  /\ (fs0[readme] # None /\ fs0[readme] # Some(README_TMP_CONTENT))
                  => fs[readme] = fs0[readme]
            /\ Has("cleanup") => fs[readme] # Some(README_TMP_CONTENT)

OtherFailure == efilename \notin {"", "README.md"}

C4_HandlerLeavesFilesAlone ==
    (pc = "load" /\ PyProjectLoad.kind = "FileNotFoundError"
                 /\ PyProjectLoad.filename # "README.md")
        => (fs' = fs /\ efilename' = PyProjectLoad.filename /\ project' = None)

C4_FatalAfterOtherFailure ==
    OtherFailure =>
        /\ project = None
        /\ g = None
        /\ output = None
        /\ pc = "load" => /\ PyProjectLoad.kind = "FileNotFoundError"
                          /\ PyProjectLoad.filename = efilename
        /\ pc # "load" => attempt = 2
        /\ pc \notin {"load", "else"} => Has("error")
        /\ pc \notin {"cleanup", "return", "done"}

\* C4. A parse attempt that fails for a missing file not named README.md
\* changes nothing on the filesystem; the failure recurs at every later
\* attempt, both attempts are used up, and the run ends with the loading error
\* reported, no graph and no output.
C4_OtherMissingFileNotRecovered ==
    [][C4_HandlerLeavesFilesAlone]_vars /\ []C4_FatalAfterOtherFailure

C4_Witness ==
    /\ pc = "crashed"
    /\ efilename = OtherFile
    /\ Count("notfound") = 2
    /\ fs = fs0

CreatedFiles == { p \in Paths : fs0[p] = None /\ fs[p] # None }

C5_SecondFailureKeepsFiles ==
    (pc = "load" /\ attempt = 1 /\ PyProjectLoad.kind = "FileNotFoundError")
        => (fs' = fs /\ pc' = "else")

C5_BoundedAttempts ==
    /\ Count("load") <= 2
    /\ attempt <= 2
    /\ pc = "load" => attempt < 2
    /\ Cardinality(CreatedFiles) <= 1
    /\ CreatedFiles \subseteq {<<"cwd", "README.md">>}
    /\ Count("notfound") = 2 => (pc # "load" /\ project = None /\ g = None)
    /\ (Count("notfound") = 2 /\ pc \notin {"load", "else"}) => Has("error")

C6_ExactlyOneType ==
    Built => /\ Statements(pr0, RDF_type) = {<<pr0, RDF_type, DOAP_Project>>}
             /\ Cardinality(Statements(pr0, DOAP_name)) = 1

RepositoryIsProject ==
    /\ UrlsTruthy(toml.urls)
    /\ Truthy(toml.urls[1].repository)
    /\ URIRef(toml.urls[1].repository[1]) = pr0

PersonIsProject ==
    \E l \in {OrEmpty(toml.authors), OrEmpty(toml.maintainers)} :
        \E i \in 1..Len(l) : l[i].email # None /\ email_iri(l[i]) = pr0

\* C6. The graph holds the statement that the project resource has type
\* Project, which is the only statement of that type in the graph, and exactly
\* one doap:name statement, the project's; the project resource has no other
\* type unless urls.repository or the mailto: URI of a contributor equals
\* base_url + name, and with urls.repository equal to it the project resource
\* has the type Repository too.
C6_ProjectTypeAndName ==
    Built =>
        /\ { t \in G : t[2] = RDF_type /\ t[3] = DOAP_Project }
              = {<<pr0, RDF_type, DOAP_Project>>}
        /\ { t \in G : t[2] = DOAP_name } = {<<pr0, DOAP_name, Literal(toml.name)>>}
        /\ (~RepositoryIsProject /\ ~PersonIsProject)
              => Statements(pr0, RDF_type) = {<<pr0, RDF_type, DOAP_Project>>}
        /\ RepositoryIsProject
              => <<pr0, RDF_type, DOAP_Repository>> \in G

C6_Witness ==
    /\ Built
    /\ RepositoryIsProject
    /\ Cardinality(Statements(pr0, RDF_type)) = 2

TwoAuthorsOneEmail ==
    /\ Built
    /\ Len(OrEmpty(toml.authors)) = 2
    /\ toml.authors[1][1].email = toml.authors[1][2].email

\* C7 as stated. With two authors that share an email the graph has one person
\* resource and two developer statements from the project.
C7_TwoDeveloperLinks ==
    TwoAuthorsOneEmail =>
        /\ Cardinality({ t[3] : t \in Statements(pr0, DOAP_developer) }) = 1
        /\ Cardinality(Statements(pr0, DOAP_developer)) = 2

\* C7. With two authors that share an email the graph has one person resource,
\* the shared mailto: URI, typed Agent and carrying the name of each of the two
\* authors, and a single developer statement from the project to it: the two
\* links are one statement of the set.
C7_OnePersonOneDeveloperLink ==
    TwoAuthorsOneEmail =>
        LET a == toml.authors[1]
            person == URIRef("mailto:" \o a[1].email[1])
        IN  /\ Statements(pr0, DOAP_developer) = {<<pr0, DOAP_developer, person>>}
            /\ <<person, RDF_type, FOAF_Agent>> \in G
            /\ {Literal(a[1].name), Literal(a[2].name)}
                  \subseteq { t[3] : t \in Statements(person, URIRef(FOAF \o "name")) }
            /\ OrEmpty(toml.maintainers) = <<>>
                  => { t[1] : t \in { u \in G : u[2] = RDF_type /\ u[3] = FOAF_Agent } }
                        = {person}

C7_Witness ==
    /\ TwoAuthorsOneEmail
    /\ toml.authors[1][1].name # toml.authors[1][2].name
    /\ Cardinality(Statements(pr0, DOAP_developer)) = 1

LicenseInGraph ==
    \E t \in G : t[2] = URIRef(DOAP \o "license") \/ t[2] = URIRef(RDFS \o "label")

RepositoryInGraph ==
    \E t \in G : \/ t[2] = URIRef(DOAP \o "repository")
                 \/ t[2] = URIRef(DOAP \o "location")
                 \/ (t[2] = RDF_type /\ t[3] = DOAP_Repository)

\* C8. A graph holds a license statement or a license resource only if the
\* record has a license with a non-empty text, and a repository statement or a
\* repository resource (type Repository, location) only if urls.repository is
\* present; without a license field it holds neither the license predicate nor
\* a license resource.
C8_LicenseAndRepositoryOnlyIfPresent ==
    Built =>
        /\ LicenseInGraph => (toml.license # None /\ toml.license[1].text # "")
        /\ RepositoryInGraph => (toml.urls # None /\ toml.urls[1].repository # None)
        /\ toml.license = None => ~LicenseInGraph

C8_Witness ==
    /\ Built
    /\ LicenseInGraph
    /\ RepositoryInGraph
    /\ <<pr0, URIRef(DOAP \o "license"), URIRef(LICENSE_NAMESPACE \o "MIT")>> \in G

HasEntryWithoutEmail ==
    \E l \in {OrEmpty(toml.authors), OrEmpty(toml.maintainers)} :
        \E i \in 1..Len(l) : l[i].email = None

\* C9. A record with an author or maintainer entry that has no email goes
\* through the builder without an error, and the graph has the person resource
\* mailto: with its type, name and mbox and the link from the project.
C9_MissingEmailPassthrough ==
    (HasEntryWithoutEmail /\ pc # "build") =>
        /\ exc = ""
        /\ Built
        /\ <<URIRef("mailto:"), RDF_type, FOAF_Agent>> \in G
        /\ <<URIRef("mailto:"), URIRef(FOAF \o "mbox"), URIRef("mailto:")>> \in G
        /\ \E t \in G : t[1] = pr0 /\ t[3] = URIRef("mailto:")

OnlyName ==
    /\ toml.description = None
    /\ toml.authors = None
    /\ toml.maintainers = None
    /\ toml.urls = None
    /\ toml.license = None

\* C10. For a record whose only present field is name the graph consists of
\* exactly two statements: the project's type Project and the project's name.
C10_OnlyNameYieldsTwoStatements ==
    (Built /\ OnlyName) =>
        G = { <<pr0, RDF_type, DOAP_Project>>, <<pr0, DOAP_name, Literal(toml.name)>> }

C10_Witness ==
    /\ Built
    /\ OnlyName
    /\ Cardinality(G) = 2

====
